---- MODULE Spec2Model ----
(***************************************************************************)
(* NetPulse (src/app.py): a Flask application that runs a ping and a       *)
(* speedtest for a logged-in user and stores the outcome in one SQLite     *)
(* table through a single module-level SQLAlchemy session.                 *)
(*                                                                         *)
(* Two specifications:                                                     *)
(*   Spec             the request handlers (newtest, dashboard, result)    *)
(*                    serving logged-in sessions on concurrent worker      *)
(*                    threads that share `db`;                             *)
(*   ParseSpec        run_ping applied to process outputs built from       *)
(*                    sample ping lines.                                   *)
(*                                                                         *)
(* Text is a sequence of one-character strings, so that substring tests,   *)
(* split("/") and float() are computed as Python computes them.  A float   *)
(* is an integer number of thousandths.  An optional value is <<>> (None)  *)
(* or <<v>>.                                                               *)
(***************************************************************************)
EXTENDS Integers, Sequences, FiniteSets, TLC

VARIABLES
  pc,        \* per session: position of the handler serving its request
  ip,        \* per session: request.form["ip"] of its last POST /newtest
  test_id,   \* per session: <int:test_id> of its last GET /result
  proc,      \* per session: outcome of the ping process run_ping started
  ping_ms,   \* per session: value returned by run_ping
  facility,  \* per session: what the speedtest service does with this call
  run,       \* per session: identity of the TestResult object of its request
  resp,      \* per session: last HTTP response it received
  pending,   \* db: objects added to the session, not yet flushed (session.new)
  flushed,   \* db: rows INSERTed in the open transaction, not yet committed
  table,     \* test_results rows committed to network_tests.db
  nruns,     \* number of POST /newtest requests accepted so far
  p_pc,      \* ParseSpec: "call" before run_ping returns, "returned" after
  p_lines,   \* ParseSpec: indices into LineSamples of the lines of stdout
  p_rc,      \* ParseSpec: exit status of the ping process
  p_res      \* ParseSpec: value returned by run_ping

handlerVars == <<pc, ip, test_id, proc, ping_ms, facility, run, resp>>
dbVars == <<pending, flushed, table, nruns>>
parseVars == <<p_pc, p_lines, p_rc, p_res>>
vars == <<handlerVars, dbVars, parseVars>>

-----------------------------------------------------------------------------
\* Bounds of the model.
MaxRuns == 2      \* POST /newtest requests accepted in one behaviour
MaxClock == 1     \* datetime.utcnow() takes values 0..MaxClock
MaxLines == 2     \* lines of ping output in ParseSpec

None == <<>>
Some(v) == <<v>>

Min(S) == CHOOSE x \in S : \A y \in S : x <= y
Max(S) == CHOOSE x \in S : \A y \in S : x >= y

-----------------------------------------------------------------------------
\* Python string operations used by run_ping.

DigitChars == <<"0","1","2","3","4","5","6","7","8","9">>

\* str.isdigit() on the characters that occur in the sample lines
IsDigit(ch) == \E d \in 1..10 : DigitChars[d] = ch

DigitOf(ch) == (CHOOSE d \in 1..10 : DigitChars[d] = ch) - 1

\* needle in hay
Contains(needle, hay) ==
  \E i \in 0..(Len(hay) - Len(needle)) : SubSeq(hay, i + 1, i + Len(needle)) = needle

\* needle in out, for out given as its splitlines(); no needle holds a newline
InOutput(needle, out) == \E k \in 1..Len(out) : Contains(needle, out[k])

\* s.split(sep) for a one-character separator
RECURSIVE Split(_, _)
Split(s, sep) ==
  LET idx == {i \in 1..Len(s) : s[i] = sep}
  IN  IF idx = {} THEN <<s>>
      ELSE <<SubSeq(s, 1, Min(idx) - 1)>> \o Split(SubSeq(s, Min(idx) + 1, Len(s)), sep)

\* "".join(ch for ch in line if ch.isdigit() or ch == ".")
DigitsAndDots(line) == SelectSeq(line, LAMBDA ch : IsDigit(ch) \/ ch = ".")

Strip(s) ==
  LET idx == {i \in 1..Len(s) : s[i] # " "}
  IN  IF idx = {} THEN <<>> ELSE SubSeq(s, Min(idx), Max(idx))

RECURSIVE DigitsValue(_)
DigitsValue(ds) ==
  IF ds = <<>> THEN 0
  ELSE DigitsValue(SubSeq(ds, 1, Len(ds) - 1)) * 10 + DigitOf(ds[Len(ds)])

\* float(s): None stands for ValueError, Some(v) for the value in thousandths
\* (digits after the third decimal are dropped).  Surrounding blanks are
\* stripped and a sign is accepted; exponent, inf/nan and underscore forms do
\* not occur in the texts run_ping hands to float() here.
PyFloat(s) ==
  LET t == Strip(s)
      signed == t # <<>> /\ t[1] \in {"+", "-"}
      u == IF signed THEN Tail(t) ELSE t
      dots == {i \in 1..Len(u) : u[i] = "."}
      wellFormed == /\ \A i \in 1..Len(u) : IsDigit(u[i]) \/ u[i] = "."
                    /\ Cardinality(dots) <= 1
                    /\ \E i \in 1..Len(u) : IsDigit(u[i])
      dot == IF dots = {} THEN Len(u) + 1 ELSE Min(dots)
      whole == SubSeq(u, 1, dot - 1)
      frac == SubSeq(u, dot + 1, Len(u))
      frac3 == [i \in 1..3 |-> IF i <= Len(frac) THEN frac[i] ELSE "0"]
      mag == DigitsValue(whole) * 1000 + DigitsValue(frac3)
  IN  IF ~wellFormed THEN None
      ELSE IF signed /\ t[1] = "-" THEN Some(0 - mag) ELSE Some(mag)

-----------------------------------------------------------------------------
\* Lines of ping output and the substrings run_ping looks for.

\* "Average = 23ms"
LineAverage ==
  <<"A","v","e","r","a","g","e"," ","="," ","2","3","m","s">>

\* "Minimum = 20ms, Maximum = 30ms, Average = 23ms"
LineWinStats ==
  <<"M","i","n","i","m","u","m"," ","="," ","2","0","m","s",
     ","," ","M","a","x","i","m","u","m"," ","="," ","3","0",
     "m","s",","," ","A","v","e","r","a","g","e"," ","="," ",
     "2","3","m","s">>

\* "rtt min/avg/max/mdev = 1.1/2.2/3.3/0.4 ms"
LineRtt ==
  <<"r","t","t"," ","m","i","n","/","a","v","g","/","m","a",
     "x","/","m","d","e","v"," ","="," ","1",".","1","/","2",
     ".","2","/","3",".","3","/","0",".","4"," ","m","s">>

\* "PING avg.lan: 56 data bytes"
LinePingAvg ==
  <<"P","I","N","G"," ","a","v","g",".","l","a","n",":"," ",
     "5","6"," ","d","a","t","a"," ","b","y","t","e","s">>

\* "PING rtt.lan: 56 data bytes"
LinePingRtt ==
  <<"P","I","N","G"," ","r","t","t",".","l","a","n",":"," ",
     "5","6"," ","d","a","t","a"," ","b","y","t","e","s">>

\* "Request timed out."
LineTimedOut ==
  <<"R","e","q","u","e","s","t"," ","t","i","m","e","d"," ",
     "o","u","t",".">>

\* "Average = n/a"
LineAverageNA ==
  <<"A","v","e","r","a","g","e"," ","="," ","n","/","a">>

\* "rtt min/avg/max/mdev = 1.1/-/3.3/0.4 ms"
LineRttBad ==
  <<"r","t","t"," ","m","i","n","/","a","v","g","/","m","a",
     "x","/","m","d","e","v"," ","="," ","1",".","1","/","-",
     "/","3",".","3","/","0",".","4"," ","m","s">>

\* "Average"
NeedleAverage ==
  <<"A","v","e","r","a","g","e">>

\* "avg"
NeedleAvg ==
  <<"a","v","g">>

\* "rtt min/avg"
NeedleRttMinAvg ==
  <<"r","t","t"," ","m","i","n","/","a","v","g">>

\* "rtt"
NeedleRtt ==
  <<"r","t","t">>

\* Each sample line with what it is: a summary line of the "Average" convention,
\* of the slash-delimited min/avg/max convention, or neither; and the mean
\* round-trip time the line states (None when it states no number).
LineSamples ==
  << [text |-> LineAverage,   kind |-> "average", mean |-> Some(23000)],
     [text |-> LineWinStats,  kind |-> "average", mean |-> Some(23000)],
     [text |-> LineRtt,       kind |-> "slash",   mean |-> Some(2200)],
     [text |-> LinePingAvg,   kind |-> "other",   mean |-> None],
     [text |-> LinePingRtt,   kind |-> "other",   mean |-> None],
     [text |-> LineTimedOut,  kind |-> "other",   mean |-> None],
     [text |-> LineAverageNA, kind |-> "average", mean |-> None],
     [text |-> LineRttBad,    kind |-> "slash",   mean |-> None] >>

\* proc.stdout for a choice of sample lines
Stdout(ls) == [k \in 1..Len(ls) |-> LineSamples[ls[k]].text]

LineChoices == UNION {[1..n -> 1..Len(LineSamples)] : n \in 0..MaxLines}

ExitCodes == {0, 1}

\* A finished subprocess.run call: TimeoutExpired was raised, or a
\* CompletedProcess with stdout and returncode came back.
Exited(out, rc) == [timeout |-> FALSE, stdout |-> out, returncode |-> rc]
TimedOut == [timeout |-> TRUE, stdout |-> <<>>, returncode |-> 0]
NoProc == [timeout |-> FALSE, stdout |-> <<>>, returncode |-> 0]

\* run_ping from subprocess.run's outcome to its return value.  IndexError and
\* ValueError, like TimeoutExpired, end in `except Exception: return None`.
\* proc.returncode is never read.
run_ping(p) ==
  IF p.timeout THEN None
  ELSE LET out == p.stdout
       IN  IF InOutput(NeedleAverage, out)
           THEN LET k == Min({j \in 1..Len(out) : Contains(NeedleAverage, out[j])})
                IN  PyFloat(DigitsAndDots(out[k]))
           ELSE IF InOutput(NeedleAvg, out) \/ InOutput(NeedleRttMinAvg, out)
           THEN LET hits == {j \in 1..Len(out) :
                               Contains(NeedleRtt, out[j]) \/ Contains(NeedleAvg, out[j])}
                    parts == Split(out[Min(hits)], "/")
                IN  IF hits = {} THEN None
                    ELSE IF Len(parts) < 5 THEN None
                    ELSE PyFloat(parts[5])
           ELSE None

-----------------------------------------------------------------------------
\* The web application: sessions, users, inputs.

\* Logged-in browser sessions.  Each sends one request at a time; the server
\* handles the requests of different sessions on concurrent threads.  Every
\* call on the shared session (query, add, commit) is one step; the steps of
\* different handlers interleave freely.
Sessions == {"s1", "s2"}

\* load_user: current_user.id for a request of session s (users.id)
UserOf(s) == IF s = "s1" THEN 1 ELSE 2

Clock == 0..MaxClock

\* POST /newtest requests drawn in Spec: the form field "ip" and what the
\* ping process started for it does.  A ping of the empty host name cannot
\* succeed; a ping of host "h" answers, fails or outlasts the timeout.
Requests ==
  { [ip |-> "h", proc |-> Exited(<<LineAverage>>, 0)],
    [ip |-> "h", proc |-> TimedOut],
    [ip |-> "",  proc |-> Exited(<<LineTimedOut>>, 1)] }

\* What the speedtest service does with one call: it never answers, or an
\* exception comes out of Speedtest(), get_best_server(), download() or
\* upload(), or all of them return.
Silent == [answers |-> FALSE, raises |-> FALSE, download |-> 0, upload |-> 0, ping |-> 0]
Failing == [answers |-> TRUE, raises |-> TRUE, download |-> 0, upload |-> 0, ping |-> 0]
Measured == [answers |-> TRUE, raises |-> FALSE, download |-> 90, upload |-> 10, ping |-> 5]
Facilities == {Silent, Failing, Measured}

\* st.results.dict()
ResultsDict(f) == [download |-> f.download, upload |-> f.upload, ping |-> f.ping]

\* Variant of run_speedtest whose except branch returns a result dict without
\* the "error" key.
run_speedtest_NoErrorKey(f) ==
  [download |-> f.download, upload |-> f.upload, ping |-> f.ping,
   raw |-> ResultsDict(f)]

\* run_speedtest from what the service did to the dict it returns
run_speedtest(f) ==
  IF f.raises THEN [error |-> "speedtest failed"]
  ELSE [download |-> f.download, upload |-> f.upload, ping |-> f.ping,
        raw |-> ResultsDict(f)]

\* json.dumps(raw, indent=2): the text lists the keys in dict order, each
\* with its value
RawKeys == <<"download", "upload", "ping">>
JsonDumps(raw) == [i \in 1..Len(RawKeys) |-> <<RawKeys[i], raw[RawKeys[i]]>>]

NoResponse == [kind |-> "none"]
Redirect(msg) == [kind |-> "redirect", to |-> "dashboard", flash |-> msg]

\* Variant of TestResult that stores 0 for a missing latency.
TestResult_ZeroPing(s, d) ==
  [ user_id |-> UserOf(s),
    target_ip |-> ip[s],
    ping_ms |-> IF ping_ms[s] = None THEN Some(0) ELSE ping_ms[s],
    download_bps |-> d.download,
    upload_bps |-> d.upload,
    detail_json |-> JsonDumps(d.raw),
    obj |-> run[s] ]

\* TestResult(...) as built by newtest from the dict d that run_speedtest
\* returned; id and timestamp are filled in by the INSERT.  obj is the
\* identity of the Python object.
TestResult(s, d) ==
  [ user_id |-> UserOf(s),
    target_ip |-> ip[s],
    ping_ms |-> ping_ms[s],
    download_bps |-> d.download,
    upload_bps |-> d.upload,
    detail_json |-> JsonDumps(d.raw),
    obj |-> run[s] ]

\* Session.flush(): INSERT every pending object.  The integer primary key is
\* the next rowid; timestamp takes its column default, utcnow() at the INSERT.
Inserted(objs, base, tss) ==
  [k \in 1..Len(objs) |->
     [ id |-> base + k,
       timestamp |-> tss[k],
       user_id |-> objs[k].user_id,
       target_ip |-> objs[k].target_ip,
       ping_ms |-> objs[k].ping_ms,
       download_bps |-> objs[k].download_bps,
       upload_bps |-> objs[k].upload_bps,
       detail_json |-> objs[k].detail_json,
       obj |-> objs[k].obj ]]

Flush(tss) == flushed \o Inserted(pending, Len(table) + Len(flushed), tss)

\* Rows a query on the shared session sees: the committed ones and those of
\* the session's open transaction.
Visible(fl) == table \o fl

\* .filter_by(user_id=o)
FilterByUser(rows, o) == SelectSeq(rows, LAMBDA r : r.user_id = o)

\* Variant of the ordering: ascending timestamps.
RECURSIVE OrderByTimestampAsc(_, _)
OrderByTimestampAsc(rows, tie) ==
  IF rows = <<>> THEN <<>>
  ELSE LET rest == OrderByTimestampAsc(Tail(rows), tie)
           r == Head(rows)
           n == Cardinality({i \in 1..Len(rest) :
                               \/ rest[i].timestamp < r.timestamp
                               \/ rest[i].timestamp = r.timestamp /\ tie})
       IN  SubSeq(rest, 1, n) \o <<r>> \o SubSeq(rest, n + 1, Len(rest))

\* .order_by(TestResult.timestamp.desc()); SQL leaves the order of rows with
\* equal timestamps open: tie says whether a later-scanned row goes first.
RECURSIVE OrderByTimestampDesc(_, _)
OrderByTimestampDesc(rows, tie) ==
  IF rows = <<>> THEN <<>>
  ELSE LET rest == OrderByTimestampDesc(Tail(rows), tie)
           r == Head(rows)
           n == Cardinality({i \in 1..Len(rest) :
                               \/ rest[i].timestamp > r.timestamp
                               \/ rest[i].timestamp = r.timestamp /\ tie})
       IN  SubSeq(rest, 1, n) \o <<r>> \o SubSeq(rest, n + 1, Len(rest))

\* db.query(TestResult).filter_by(user_id=o).order_by(timestamp.desc()).all()
ListByOwner(rows, o, tie) == OrderByTimestampDesc(FilterByUser(rows, o), tie)

\* Variant of the lookup without the user_id filter.
GetById_AnyOwner(rows, o, i) ==
  LET hit == SelectSeq(rows, LAMBDA r : r.id = i)
  IN  IF hit = <<>> THEN None ELSE Some(Head(hit))

\* db.query(TestResult).filter_by(id=i, user_id=o).first(): None or Some(row)
GetById(rows, o, i) ==
  LET hit == SelectSeq(rows, LAMBDA r : r.id = i /\ r.user_id = o)
  IN  IF hit = <<>> THEN None ELSE Some(Head(hit))

-----------------------------------------------------------------------------
HandlerInit ==
  /\ pc = [s \in Sessions |-> "idle"]
  /\ ip = [s \in Sessions |-> ""]
  /\ test_id = [s \in Sessions |-> 0]
  /\ proc = [s \in Sessions |-> NoProc]
  /\ ping_ms = [s \in Sessions |-> None]
  /\ facility = [s \in Sessions |-> Silent]
  /\ run = [s \in Sessions |-> 0]
  /\ resp = [s \in Sessions |-> NoResponse]
  /\ pending = <<>>
  /\ flushed = <<>>
  /\ table = <<>>
  /\ nruns = 0

Init ==
  /\ HandlerInit
  /\ p_pc = "returned"
  /\ p_lines = <<>>
  /\ p_rc = 0
  /\ p_res = None

\* The handler returns response r to session s.  Its locals are gone; test_id
\* and ping_ms stay as the record of the request just served, until the
\* session sends its next one.
Return(s, r) ==
  /\ resp' = [resp EXCEPT ![s] = r]
  /\ pc' = [pc EXCEPT ![s] = "idle"]
  /\ ip' = [ip EXCEPT ![s] = ""]
  /\ proc' = [proc EXCEPT ![s] = NoProc]
  /\ run' = [run EXCEPT ![s] = 0]
  /\ UNCHANGED <<test_id, ping_ms>>

\* A new request of session s: the record of its previous one is dropped.
Arrive(s) ==
  /\ pc[s] = "idle"
  /\ resp' = [resp EXCEPT ![s] = NoResponse]

\* POST /newtest arrives from session s; newtest reads the form field and
\* run_ping starts the ping process.
NewtestPost(s) ==
  /\ Arrive(s)
  /\ nruns < MaxRuns
  /\ \E rq \in Requests :
       /\ ip' = [ip EXCEPT ![s] = rq.ip]
       /\ proc' = [proc EXCEPT ![s] = rq.proc]
  /\ pc' = [pc EXCEPT ![s] = "ping"]
  /\ run' = [run EXCEPT ![s] = nruns + 1]
  /\ nruns' = nruns + 1
  /\ ping_ms' = [ping_ms EXCEPT ![s] = None]
  /\ test_id' = [test_id EXCEPT ![s] = 0]
  /\ UNCHANGED <<facility, pending, flushed, table, parseVars>>

\* Variant of Ping in which TimeoutExpired is not caught: the request ends
\* with an internal server error.
Ping_TimeoutPropagates(s) ==
  /\ pc[s] = "ping"
  /\ IF proc[s].timeout
     THEN /\ Return(s, [kind |-> "error", status |-> 500])
          /\ UNCHANGED facility
     ELSE /\ ping_ms' = [ping_ms EXCEPT ![s] = run_ping(proc[s])]
          /\ \E f \in Facilities : facility' = [facility EXCEPT ![s] = f]
          /\ pc' = [pc EXCEPT ![s] = "speedtest"]
          /\ UNCHANGED <<ip, test_id, proc, run, resp>>
  /\ UNCHANGED <<dbVars, parseVars>>

\* subprocess.run ends (exit or timeout) and run_ping returns; newtest goes
\* on to call run_speedtest.
Ping(s) ==
  /\ pc[s] = "ping"
  /\ ping_ms' = [ping_ms EXCEPT ![s] = run_ping(proc[s])]
  /\ \E f \in Facilities : facility' = [facility EXCEPT ![s] = f]
  /\ pc' = [pc EXCEPT ![s] = "speedtest"]
  /\ UNCHANGED <<ip, test_id, proc, run, resp, dbVars, parseVars>>

\* run_speedtest returns, which takes an answer of the service since no
\* deadline is set; then newtest's error branch, or TestResult(...) and db.add.
Speedtest(s) ==
  /\ pc[s] = "speedtest"
  /\ facility[s].answers
  /\ LET d == run_speedtest(facility[s])
     IN  IF "error" \in DOMAIN d
         THEN /\ Return(s, Redirect("danger: speedtest error"))
              /\ UNCHANGED pending
         ELSE /\ pending' = Append(pending, TestResult(s, d))
              /\ pc' = [pc EXCEPT ![s] = "commit"]
              /\ UNCHANGED <<ip, proc, run, resp, test_id, ping_ms>>
  /\ facility' = [facility EXCEPT ![s] = Silent]
  /\ UNCHANGED <<flushed, table, nruns, parseVars>>

\* db.commit() in newtest: flushes and commits whatever the shared session
\* holds, then the success redirect.
Commit(s) ==
  /\ pc[s] = "commit"
  /\ \E tss \in [1..Len(pending) -> Clock] : table' = table \o Flush(tss)
  /\ flushed' = <<>>
  /\ pending' = <<>>
  /\ Return(s, Redirect("success: saved"))
  /\ UNCHANGED <<facility, nruns, parseVars>>

\* GET /dashboard arrives from session s
DashboardGet(s) ==
  /\ Arrive(s)
  /\ pc' = [pc EXCEPT ![s] = "dashboard"]
  /\ ping_ms' = [ping_ms EXCEPT ![s] = None]
  /\ test_id' = [test_id EXCEPT ![s] = 0]
  /\ UNCHANGED <<ip, proc, facility, run, dbVars, parseVars>>

\* dashboard: the query autoflushes the session, then the page is rendered
Dashboard(s) ==
  /\ pc[s] = "dashboard"
  /\ \E tss \in [1..Len(pending) -> Clock], tie \in BOOLEAN :
       /\ flushed' = Flush(tss)
       /\ Return(s, [kind |-> "dashboard",
                     tests |-> ListByOwner(Visible(flushed'), UserOf(s), tie)])
  /\ pending' = <<>>
  /\ UNCHANGED <<facility, table, nruns, parseVars>>

\* GET /result/<test_id> arrives from session s
ResultGet(s) ==
  /\ Arrive(s)
  /\ \E i \in 1..MaxRuns : test_id' = [test_id EXCEPT ![s] = i]
  /\ pc' = [pc EXCEPT ![s] = "result"]
  /\ ping_ms' = [ping_ms EXCEPT ![s] = None]
  /\ UNCHANGED <<ip, proc, facility, run, dbVars, parseVars>>

\* result: the query autoflushes the session; the row or the not-found redirect
Result(s) ==
  /\ pc[s] = "result"
  /\ \E tss \in [1..Len(pending) -> Clock] : flushed' = Flush(tss)
  /\ LET test == GetById(Visible(flushed'), UserOf(s), test_id[s])
     IN  Return(s, IF test = None
                   THEN Redirect("danger: not found")
                   ELSE [kind |-> "result", test |-> test[1]])
  /\ pending' = <<>>
  /\ UNCHANGED <<facility, table, nruns, parseVars>>

Next ==
  \E s \in Sessions :
    \/ NewtestPost(s)
    \/ Ping(s)
    \/ Speedtest(s)
    \/ Commit(s)
    \/ DashboardGet(s)
    \/ Dashboard(s)
    \/ ResultGet(s)
    \/ Result(s)

Spec == Init /\ [][Next]_vars

-----------------------------------------------------------------------------
\* run_ping on its own, over outputs built from the sample lines.

ParseInit ==
  /\ HandlerInit
  /\ p_pc = "call"
  /\ p_lines \in LineChoices
  /\ p_rc \in ExitCodes
  /\ p_res = None

PingReturns ==
  /\ p_pc = "call"
  /\ p_res' = run_ping(Exited(Stdout(p_lines), p_rc))
  /\ p_pc' = "returned"
  /\ UNCHANGED <<p_lines, p_rc, handlerVars, dbVars>>

ParseNext == PingReturns

ParseSpec == ParseInit /\ [][ParseNext]_vars

-----------------------------------------------------------------------------
\* Properties.

\* Rows the shared session sees after the step
VisibleAfter == table' \o flushed'

\* Every TestResult the session holds or the table stores
AllRows == table \o flushed \o pending

\* C1: a /result lookup by session s returns a row only if the row's user_id is
\* the session's user and its id the one asked for; when the id asked for
\* belongs to a row of another user the answer is the not-found redirect; and
\* every row the dashboard lists has the session's user_id.
C1_ReadsScopedToOwner ==
  [][\A s \in Sessions :
       /\ (pc[s] = "result" /\ pc'[s] = "idle") =>
            /\ resp'[s].kind = "result" =>
                 /\ resp'[s].test.user_id = UserOf(s)
                 /\ resp'[s].test.id = test_id[s]
            /\ (\E k \in 1..Len(VisibleAfter) :
                  /\ VisibleAfter[k].id = test_id[s]
                  /\ VisibleAfter[k].user_id # UserOf(s))
                 => resp'[s] = Redirect("danger: not found")
       /\ (pc[s] = "dashboard" /\ pc'[s] = "idle") =>
            \A j \in 1..Len(resp'[s].tests) : resp'[s].tests[j].user_id = UserOf(s)
    ]_vars

\* A session was told not-found for the id of a stored row of another user.
C1_Witness ==
  \E s \in Sessions, k \in 1..Len(table) :
    /\ pc[s] = "idle"
    /\ resp[s] = Redirect("danger: not found")
    /\ table[k].id = test_id[s]
    /\ table[k].user_id # UserOf(s)

\* C2: the dashboard lists every stored row of the session's user exactly once,
\* in order of non-increasing timestamp, and answers with an empty list when
\* there is none; committed rows are never dropped or altered.
C2_ListCompleteAndOrdered ==
  [][/\ SubSeq(table', 1, Len(table)) = table
     /\ \A s \in Sessions :
          (pc[s] = "dashboard" /\ pc'[s] = "idle") =>
            LET tests == resp'[s].tests
                mine == {k \in 1..Len(VisibleAfter) : VisibleAfter[k].user_id = UserOf(s)}
            IN  /\ resp'[s].kind = "dashboard"
                /\ Len(tests) = Cardinality(mine)
                /\ \A k \in mine : \E j \in 1..Len(tests) : tests[j] = VisibleAfter[k]
                /\ \A j \in 1..(Len(tests) - 1) : tests[j].timestamp >= tests[j + 1].timestamp
                /\ mine = {} => tests = <<>>
    ]_vars

\* A dashboard that lists two rows, the more recent one first.
C2_Witness ==
  \E s \in Sessions :
    /\ resp[s].kind = "dashboard"
    /\ Len(resp[s].tests) >= 2
    /\ resp[s].tests[1].timestamp > resp[s].tests[2].timestamp

\* C3: when the speedtest of a run fails, the handler answers with the error
\* redirect and neither the table nor the session's pending or flushed rows
\* change, so every user's dashboard list is what it was.
C3_FailedThroughputSavesNothing ==
  [][\A s \in Sessions :
       (pc[s] = "speedtest" /\ facility[s].raises /\ pc'[s] # "speedtest") =>
         /\ pc'[s] = "idle"
         /\ resp'[s] = Redirect("danger: speedtest error")
         /\ UNCHANGED <<pending, flushed, table>>
         /\ \A o \in {UserOf(x) : x \in Sessions}, tie \in BOOLEAN :
              ListByOwner(VisibleAfter, o, tie) = ListByOwner(Visible(flushed), o, tie)
    ]_vars

\* A run was reported failed although its ping had produced a value.
C3_Witness ==
  \E s \in Sessions :
    /\ pc[s] = "idle"
    /\ resp[s] = Redirect("danger: speedtest error")
    /\ ping_ms[s] # None

\* C4: when run_ping returned None and the speedtest succeeded, newtest adds
\* one TestResult whose ping_ms is None and whose download, upload and detail
\* are those the speedtest of this run returned; after its commit step the
\* success redirect is sent and the table holds exactly one row of this run,
\* with ping_ms None.
C4_MissingLatencyStoredAsNone ==
  [][\A s \in Sessions :
       /\ (/\ pc[s] = "speedtest" /\ facility[s].answers /\ ~facility[s].raises
           /\ ping_ms[s] = None /\ pc'[s] # "speedtest") =>
            /\ pc'[s] = "commit"
            /\ Len(pending') = Len(pending) + 1
            /\ SubSeq(pending', 1, Len(pending)) = pending
            /\ LET o == pending'[Len(pending')]
               IN  /\ o.obj = run[s]
                   /\ o.ping_ms = None
                   /\ o.download_bps = facility[s].download
                   /\ o.upload_bps = facility[s].upload
                   /\ \A i \in 1..Len(RawKeys) :
                        o.detail_json[i] = <<RawKeys[i], facility[s][RawKeys[i]]>>
       /\ (pc[s] = "commit" /\ ping_ms[s] = None /\ pc'[s] = "idle") =>
            /\ resp'[s] = Redirect("success: saved")
            /\ Cardinality({k \in 1..Len(table') : table'[k].obj = run[s]}) = 1
            /\ \A k \in 1..Len(table') : table'[k].obj = run[s] => table'[k].ping_ms = None
            /\ \A k \in 1..Len(pending' \o flushed') : (pending' \o flushed')[k].obj # run[s]
    ]_vars

\* A run without latency was saved: its session got the success redirect and
\* the table holds a row with ping_ms None and the measured throughput.
C4_Witness ==
  \E s \in Sessions, k \in 1..Len(table) :
    /\ pc[s] = "idle"
    /\ resp[s] = Redirect("success: saved")
    /\ ping_ms[s] = None
    /\ table[k].user_id = UserOf(s)
    /\ table[k].ping_ms = None
    /\ table[k].download_bps = Measured.download

\* C5: a request with an empty target starts no probe and no TestResult ever
\* has an empty target_ip.
C5_EmptyTargetRejected ==
  /\ \A s \in Sessions : pc[s] \in {"ping", "speedtest", "commit"} => ip[s] # ""
  /\ \A k \in 1..Len(AllRows) : AllRows[k].target_ip # ""

\* C8: while the ping process of a run outlasts the timeout, run_ping can
\* return, and when it does it returns None and newtest goes on to the
\* speedtest.
C8_TimeoutReturnsNone ==
  [][\A s \in Sessions :
       (pc[s] = "ping" /\ proc[s].timeout) =>
         /\ ENABLED Ping(s)
         /\ pc'[s] # "ping" => (pc'[s] = "speedtest" /\ ping_ms'[s] = None)
    ]_vars

\* A run whose ping timed out is at its speedtest with no latency value.
C8_Witness ==
  \E s \in Sessions : pc[s] = "speedtest" /\ proc[s].timeout /\ ping_ms[s] = None

\* C9: a run waiting for run_speedtest can always go on, whatever the
\* speedtest service does.
C9_ThroughputProbeReturns ==
  \A s \in Sessions : pc[s] = "speedtest" => ENABLED Speedtest(s)

\* C10: the commit step of a run adds to the table exactly the one row of
\* that run, carrying the session's user and the run's own target and latency,
\* and no other step changes the table.
C10_CommitPersistsOwnRowOnly ==
  [][/\ \A s \in Sessions :
          (pc[s] = "commit" /\ pc'[s] = "idle") =>
            /\ Len(table') = Len(table) + 1
            /\ SubSeq(table', 1, Len(table)) = table
            /\ table'[Len(table')].obj = run[s]
            /\ table'[Len(table')].user_id = UserOf(s)
            /\ table'[Len(table')].target_ip = ip[s]
            /\ table'[Len(table')].ping_ms = ping_ms[s]
     /\ (\A s \in Sessions : ~(pc[s] = "commit" /\ pc'[s] = "idle")) => table' = table
    ]_vars

\* Summary lines among the chosen sample lines
SummaryLines(ls) == {k \in 1..Len(ls) : LineSamples[ls[k]].kind # "other"}

\* C6: with exit status 0 and at most one summary line in the output,
\* run_ping returns the mean that line states (the trailing value of an
\* "Average" line, the avg field of a min/avg/max line), and None when the
\* output has no summary line.
C6_ParserExtractsMean ==
  (p_pc = "returned" /\ p_rc = 0 /\ Cardinality(SummaryLines(p_lines)) <= 1) =>
    IF SummaryLines(p_lines) = {} THEN p_res = None
    ELSE \A k \in SummaryLines(p_lines) : p_res = LineSamples[p_lines[k]].mean

\* C7: run_ping returns None when the process exits non-zero, when the output
\* has no summary line, and when its summary lines state no number.
C7_NoValueOnFailure ==
  (/\ p_pc = "returned"
   /\ \/ p_rc # 0
      \/ \A k \in SummaryLines(p_lines) : LineSamples[p_lines[k]].mean = None) =>
    p_res = None

====
